---- MODULE Spec2Model ----
(***************************************************************************)
(* Agent-based housing market of real_estate_toolkit.agent_based_model:     *)
(* House, HousingMarket, Consumer and Simulation.                           *)
(*                                                                         *)
(* Numbers.  Money is held in integer cents (the code's floats, of which    *)
(* round(x, 2) keeps exactly the cents).  Rates are exact rationals         *)
(* [num, den].  Inside compute_savings the running total is the exact       *)
(* rational the loop computes and is rounded (half to even, as Python's     *)
(* round) only at the end, as in the code.  Raw prices are multiples of 5   *)
(* cents, so that price * 0.2 is a whole number of cents.                   *)
(*                                                                         *)
(* The code's numbers are IEEE-754 doubles.  Their rounding error is far    *)
(* below a cent and is carried only where it decides a comparison: an       *)
(* amount is a number of cents together with ulp, the sign of (the double   *)
(* held - the double nearest to the cents).  ulp is computed for            *)
(* max_price = savings * 5, which is compared with the prices, for the      *)
(* savings left by a purchase that takes them all, which are compared with  *)
(* zero, for round(price / area, 2) when price / area lies half way between *)
(* two cents, and for the market's price per area when it equals a house's  *)
(* in cents.  The prices of the raw records are multiples of 5 cents and    *)
(* the areas are integers; where a price is not a double (19.95, 20.05,     *)
(* 22.60) it stands for the double nearest to it.  The means of such prices  *)
(* that meet a value equal to them in cents are exact: the mean of equal    *)
(* prices is that price, and the doubles of 19.95 and 20.05 add up to 40.   *)
(***************************************************************************)
EXTENDS Integers, Sequences, FiniteSets, TLC

VARIABLES
    housing_market_data,        \* Simulation.housing_market_data: raw records
    consumers_number,           \* Simulation.consumers_number
    years,                      \* Simulation.years
    annual_income,              \* Simulation.annual_income (AnnualIncomeStatistics)
    children_range,             \* Simulation.children_range (ChildrenRange)
    cleaning_market_mechanism,  \* Simulation.cleaning_market_mechanism
    down_payment_percentage,    \* Simulation.down_payment_percentage, a rational [num, den]
    saving_rate,                \* Simulation.saving_rate, a rational [num, den]
    interest_rate,              \* Simulation.interest_rate, a rational [num, den]
    attrs,                      \* which of "consumers", "housing_market" the Simulation has (hasattr)
    houses,                     \* housing_market.houses: the list of House objects
    house_index,                \* housing_market._house_index: id -> position in houses
    consumers,                  \* Simulation.consumers: the list of Consumer objects
    frame,                      \* the running call of create_consumers: where it stands
                                \* (pc), its local list `consumers` and its last `income`
    ret                         \* the last call: operation, arguments, exception raised, and
                                \* value (the houses a query returned, the house a purchase
                                \* selected, the consumers a clearing pass called)

config == <<housing_market_data, consumers_number, years, annual_income,
            children_range, cleaning_market_mechanism, down_payment_percentage,
            saving_rate, interest_rate>>
market == <<houses, house_index>>
vars == <<config, attrs, market, consumers, frame, ret>>

----------------------------------------------------------------------------
(* Bounds of the model *)
MaxHouses == 2
\* the longest market data of the market-only specification
MaxMarketHouses == 3
MaxConsumers == 2
MaxYears == 2
\* compute_savings is not called any more once a consumer holds more than this
SavingsCap == 300

----------------------------------------------------------------------------
(* Program constants *)
current_year == 2024
MinYearBuilt == 1800
NewConstructionAge == 5
\* max_price = self.savings * 10
PriceToSavings_Ten == 2 * 5
\* max_price = self.savings * 5
PriceToSavings == 5
\* Optional[House] = None
NoHouse == 0 - 1

Segments == {"FANCY", "OPTIMIZER", "AVERAGE"}
Mechanisms == {"INCOME_ORDER_DESCENDANT", "INCOME_ORDER_ASCENDANT", "RANDOM"}
\* price * 0.2
down_payment == [num |-> 2, den |-> 10]

----------------------------------------------------------------------------
(* Arithmetic helpers *)

Abs(n) == IF n < 0 THEN 0 - n ELSE n

RECURSIVE Gcd(_, _)
Gcd(a, b) == IF b = 0 THEN a ELSE Gcd(b, a % b)

\* n/d in lowest terms, d > 0
Norm(n, d) ==
    LET g == Gcd(Abs(n), d)
    IN  [num |-> n \div g, den |-> d \div g]

\* Python's round to the nearest unit, ties to even, of n/d with d > 0
Round(n, d) ==
    LET q == n \div d
        r == n % d
    IN  IF 2 * r < d THEN q
        ELSE IF 2 * r > d THEN q + 1
        ELSE IF q % 2 = 0 THEN q ELSE q + 1

RECURSIVE SumSeq(_)
SumSeq(s) == IF s = <<>> THEN 0 ELSE Head(s) + SumSeq(Tail(s))

Positions(s) == 1..Len(s)

\* the increasing sequence of the members of a set of integers
RECURSIVE SetToSeq(_)
SetToSeq(S) ==
    IF S = {} THEN <<>>
    ELSE LET m == CHOOSE x \in S : \A y \in S : x <= y
         IN  <<m>> \o SetToSeq(S \ {m})

Exc(e) == [exc |-> e, value |-> 0]
Ok(v) == [exc |-> "None", value |-> v]

----------------------------------------------------------------------------
(* IEEE-754 binary64 arithmetic on amounts of money *)

Sign(n) == IF n > 0 THEN 1 ELSE IF n < 0 THEN 0 - 1 ELSE 0

RECURSIVE Pow2(_)
Pow2(j) == IF j = 0 THEN 1 ELSE 2 * Pow2(j - 1)

\* 2^j modulo m
RECURSIVE PowMod2(_, _)
PowMod2(j, m) == IF j = 0 THEN 1 % m ELSE (2 * PowMod2(j - 1, m)) % m

\* floor(log2(n / d)) for n > 0 and d > 0
RECURSIVE Log2Floor(_, _)
Log2Floor(n, d) ==
    IF n >= 2 * d THEN Log2Floor(n, 2 * d) + 1
    ELSE IF n < d THEN Log2Floor(2 * n, d) - 1
    ELSE 0

\* n/d among the doubles of its binade: n/d = (Q + r/d) * 2^(e - 52) with Q an
\* integer, 2^52 <= Q < 2^53, and 0 <= r < d; odd tells whether Q is odd
GridOf(e, r2, d) == [e |-> e, odd |-> r2 >= d, r |-> r2 % d]
GridAt(n, d, e) == GridOf(e, (n * PowMod2(52 - e, 2 * d)) % (2 * d), d)
Grid(n, d) == GridAt(n, d, Log2Floor(n, d))

\* round to nearest, ties to even: the integer nearest to Q + num/den, less Q,
\* where odd tells whether Q is odd.  tiebreak is the sign of a term too small
\* to change anything but a tie
Nearest(odd, num, den, tiebreak) ==
    LET f == num \div den
        g == num % den
    IN  IF 2 * g < den THEN f
        ELSE IF 2 * g > den THEN f + 1
        ELSE IF tiebreak > 0 THEN f + 1
        ELSE IF tiebreak < 0 THEN f
        ELSE IF odd # (f % 2 = 1) THEN f + 1 ELSE f

\* a float holding an amount of money
Float(cents, ulp) == [cents |-> cents, ulp |-> ulp]

\* `house.price > max_price` never true
FloatGt_Never(x, y) == FALSE

\* x > y and x <= 0 on floats
FloatGt(x, y) == x.cents > y.cents \/ (x.cents = y.cents /\ x.ulp > y.ulp)
FloatLeqZero(x) == x.cents < 0 \/ (x.cents = 0 /\ x.ulp <= 0)

\* savings * factor for savings the double nearest to `cents` cents: the double
\* nearest to the exact product of that double and factor.  In units of the
\* last place of the product, with S and P the grids of savings and product,
\* the exact product is Q_P + P.r/100 + factor * errS / 2^(P.e - S.e).
FloatTimes(cents, factor) ==
    IF cents <= 0 THEN Float(cents * factor, 0)
    ELSE LET S == Grid(cents, 100)
             P == Grid(cents * factor, 100)
             upS == Nearest(S.odd, S.r, 100, 0)
             upP == Nearest(P.odd, P.r, 100, 0)
             errS == upS * 100 - S.r
             w == Pow2(P.e - S.e)
             product == Nearest(P.odd, P.r * w + factor * errS, 100 * w, 0)
         IN  Float(cents * factor, Sign(product - upP))

\* savings - price * 0.2 when price = savings * 5 in cents, both the doubles
\* nearest to their cents.  0.2 is the double 0.2 * (1 + 2^-54), so that in
\* units of the last place of savings the exact price * 0.2 is
\* Q_S + S.r/100 + errP * 2^(P.e - S.e) / 5 + savings * 2^(-2 - S.e), and a
\* term of the sign of errP 2^54 times smaller.  Its nearest double and savings
\* lie on one grid and their difference is exact.
FloatAllSpent(cents) ==
    LET S == Grid(cents, 100)
        P == Grid(5 * cents, 100)
        upS == Nearest(S.odd, S.r, 100, 0)
        upP == Nearest(P.odd, P.r, 100, 0)
        errP == upP * 100 - P.r
        w == Pow2(P.e - S.e)
        sc == IF S.e > 0 THEN Pow2(S.e) ELSE 1
        small == IF S.e < 0 THEN 5 * cents * Pow2(0 - S.e) ELSE 5 * cents
        deduction == Nearest(S.odd, S.r * 20 * sc + errP * w * 4 * sc + small,
                             2000 * sc, Sign(errP))
    IN  Float(0, Sign(upS - deduction))

\* whether n/d is a power of two, for n > 0 and d > 0
IsPow2At(n, d, e) ==
    n * (IF e < 0 THEN Pow2(0 - e) ELSE 1) = d * (IF e > 0 THEN Pow2(e) ELSE 1)
IsPow2(n, d) == IsPow2At(n, d, Log2Floor(n, d))

\* the double nearest to a number of grid g and denominator den, less the
\* number, in units of the last place, times den
RoundingError(g, den) == Nearest(g.odd, g.r, den, 0) * den - g.r

\* round(x, 2) in cents, for x the double nearest to n/(100 * d), n cents and
\* d > 0: the cent nearest to the double.  When n/d lies half way between two
\* cents the double lies above it, below it or on it as its rounding went
FloatRoundTie(q, err) ==
    IF err > 0 THEN q + 1
    ELSE IF err < 0 THEN q
    ELSE IF q % 2 = 0 THEN q ELSE q + 1
FloatRound(n, d) ==
    IF 2 * (n % d) < d THEN n \div d
    ELSE IF 2 * (n % d) > d THEN n \div d + 1
    ELSE FloatRoundTie(n \div d, RoundingError(Grid(n, 100 * d), 100 * d))

\* X / Y for X and Y the doubles nearest to the rationals x and y, x > 0 and
\* y > 0: the sign of (the double X / Y) - (the double nearest to x / y).
\* With ux/x.den and uy/y.den the rounding errors of X and Y in units of
\* their last places, the exact X / Y in units of the last place of x / y is
\*   Q + q.r/q.den + (ux * y.den * y.num * 2^kx - uy * x.num * y.den * 2^ky)
\*                       / (x.den * y.num^2)
\* and a term of the sign of b * (b - a), a and b the relative errors of X
\* and Y, 2^52 times smaller.  Below a power of two the doubles lie twice
\* as close.
FloatDivSign(x, y, gq, m, num, den, tiebreak) ==
    IF /\ gq.r = 0
       /\ IsPow2(x.num * y.den, x.den * y.num)
       /\ (num < 0 \/ (num = 0 /\ tiebreak < 0))
    THEN Sign(Nearest(FALSE, 2 * num, den, tiebreak))
    ELSE Sign(Nearest(gq.odd, gq.r * y.num * Pow2(m) + num, den, tiebreak)
              - Nearest(gq.odd, gq.r, x.den * y.num, 0))
FloatDivScaled(x, y, gq, ux, uy, kx, ky, m, tiebreak) ==
    FloatDivSign(x, y, gq, m,
                 ux * y.den * y.num * Pow2(kx + m) - uy * x.num * y.den * Pow2(ky + m),
                 x.den * y.num * y.num * Pow2(m),
                 tiebreak)
FloatDivErr(x, y, gq, ux, uy, kx, ky, d) ==
    FloatDivScaled(x, y, gq, ux, uy, kx, ky,
                   IF kx < 0 /\ kx <= ky THEN 0 - kx ELSE IF ky < 0 THEN 0 - ky ELSE 0,
                   Sign(uy) * Sign(uy * x.num * (IF d >= 0 THEN 1 ELSE Pow2(0 - d))
                                   - ux * y.num * (IF d >= 0 THEN Pow2(d) ELSE 1)))
FloatDivOn(x, y, gx, gy, gq) ==
    FloatDivErr(x, y, gq, RoundingError(gx, x.den), RoundingError(gy, y.den),
                gx.e - gq.e, gy.e - gq.e, gx.e - gy.e)
FloatDiv(x, y) ==
    FloatDivOn(x, y, Grid(x.num, x.den), Grid(y.num, y.den),
               Grid(x.num * y.den, x.den * y.num))

----------------------------------------------------------------------------
(* houses.py: House *)

QualityScores == {"EXCELLENT", "GOOD", "AVERAGE", "FAIR", "POOR"}
\* Optional[QualityScore] = None
NoQuality == "None"

\* calculate_price_per_square_foot without the `self.area <= 0` check
calculate_price_per_square_foot_Unchecked(house) ==
    IF house.area = 0 THEN Exc("ZeroDivisionError")
    ELSE IF house.area < 0 THEN Ok(0 - FloatRound(house.price, 0 - house.area))
    ELSE Ok(FloatRound(house.price, house.area))

\* House.calculate_price_per_square_foot: round(price / area, 2), in cents
calculate_price_per_square_foot(house) ==
    IF house.area <= 0 THEN Exc("ValueError")
    ELSE Ok(FloatRound(house.price, house.area))

\* is_new_construction with `age <= 5` for `age < 5`
is_new_construction_AtMost5(house, cur_year) ==
    IF house.year_built > cur_year THEN Exc("ValueError")
    ELSE IF house.year_built < MinYearBuilt THEN Exc("ValueError")
    ELSE Ok(cur_year - house.year_built <= NewConstructionAge)

\* House.is_new_construction
is_new_construction(house, cur_year) ==
    IF house.year_built > cur_year THEN Exc("ValueError")
    ELSE IF house.year_built < MinYearBuilt THEN Exc("ValueError")
    ELSE Ok(cur_year - house.year_built < NewConstructionAge)

\* sell_house that leaves the flag as it is
sell_house_Forgotten(house) == house

\* sell_house that flips the flag
sell_house_Toggle(house) == [house EXCEPT !.available = ~ @]

\* House.sell_house
sell_house(house) == [house EXCEPT !.available = FALSE]

----------------------------------------------------------------------------
(* house_market.py: HousingMarket *)

\* the index keyed by the place in the list instead of house.id
HouseIndex_ByPlace(hs) == [i \in {p - 1 : p \in Positions(hs)} |-> i + 1]

\* HousingMarket.__init__: the index {house.id: house for house in houses};
\* a later house with the same id replaces an earlier one
HouseIndex(hs) ==
    [i \in {hs[p].id : p \in Positions(hs)} |->
        CHOOSE p \in Positions(hs) :
            /\ hs[p].id = i
            /\ \A q \in Positions(hs) : hs[q].id = i => q <= p]

\* HousingMarket.get_house_by_id: a position in houses, or 0 for None
get_house_by_id(index, house_id) ==
    IF house_id \in DOMAIN index THEN index[house_id] ELSE 0

\* the positions of the houses `if h.available`
AvailablePositions(hs) == {p \in Positions(hs) : hs[p].available}

\* calculate_average_price without `house.available` in the filter
calculate_average_price_AllHouses(hs, bedrooms) ==
    IF bedrooms # <<>> /\ bedrooms[1] < 0 THEN Exc("ValueError")
    ELSE LET filtered_houses ==
                 {p \in Positions(hs) : bedrooms = <<>> \/ hs[p].bedrooms = bedrooms[1]}
         IN  IF filtered_houses = {} THEN Exc("ValueError")
             ELSE Ok([num |-> SumSeq([k \in 1..Cardinality(filtered_houses) |->
                                         hs[SetToSeq(filtered_houses)[k]].price]),
                      den |-> Cardinality(filtered_houses)])

\* calculate_average_price with `not bedrooms` for `bedrooms is None` in the filter
calculate_average_price_ZeroIsNone(hs, bedrooms) ==
    IF bedrooms # <<>> /\ bedrooms[1] < 0 THEN Exc("ValueError")
    ELSE LET filtered_houses ==
                 {p \in Positions(hs) :
                     /\ hs[p].available
                     /\ (bedrooms = <<>> \/ bedrooms[1] = 0 \/ hs[p].bedrooms = bedrooms[1])}
         IN  IF filtered_houses = {} THEN Exc("ValueError")
             ELSE Ok([num |-> SumSeq([k \in 1..Cardinality(filtered_houses) |->
                                         hs[SetToSeq(filtered_houses)[k]].price]),
                      den |-> Cardinality(filtered_houses)])

\* HousingMarket.calculate_average_price.  The Optional[int] bedrooms is <<>> for
\* None and <<n>> for n.  The mean is the exact rational [num, den].
NoBedrooms == <<>>
calculate_average_price(hs, bedrooms) ==
    IF bedrooms # NoBedrooms /\ bedrooms[1] < 0 THEN Exc("ValueError")
    ELSE LET filtered_houses ==
                 {p \in Positions(hs) :
                     /\ hs[p].available
                     /\ (bedrooms = NoBedrooms \/ hs[p].bedrooms = bedrooms[1])}
         IN  IF filtered_houses = {} THEN Exc("ValueError")
             ELSE Ok([num |-> SumSeq([k \in 1..Cardinality(filtered_houses) |->
                                         hs[SetToSeq(filtered_houses)[k]].price]),
                      den |-> Cardinality(filtered_houses)])

\* mean(h.area for h in self.houses if h.available)
market_avg_size(hs) ==
    LET av == SetToSeq(AvailablePositions(hs))
    IN  IF av = <<>> THEN Exc("ValueError")  \* StatisticsError, a ValueError
        ELSE Ok([num |-> SumSeq([k \in 1..Len(av) |-> hs[av[k]].area]), den |-> Len(av)])

\* a / b of two rationals; ZeroDivisionError when b is zero
RatDiv(a, b) ==
    IF b.num = 0 THEN Exc("ZeroDivisionError")
    ELSE IF b.num > 0 THEN Ok([num |-> a.num * b.den, den |-> a.den * b.num])
    ELSE Ok([num |-> 0 - a.num * b.den, den |-> 0 - a.den * b.num])

\* n >= r and n > r for an integer n and a rational r with r.den > 0
IntGeqRat(n, r) == n * r.den >= r.num
IntGtRat(n, r) == n * r.den > r.num

\* house_price_per_sqft >= market_avg_price / avg_size, all in cents:
\* when the two are the same number of cents the rounding of the quotient of
\* the two means decides
PerSqftGeq(house_price_per_sqft, market_avg_price, avg_size, quotient) ==
    IF /\ house_price_per_sqft * quotient.den = quotient.num
       /\ market_avg_price.num > 0
       /\ avg_size.num > 0
    THEN FloatDiv([num |-> market_avg_price.num, den |-> 100 * market_avg_price.den],
                  avg_size) <= 0
    ELSE IntGeqRat(house_price_per_sqft, quotient)

\* house_price_per_sqft < market_price_per_sqft, and FALSE when one of the
\* three computations, or the division of the averages, raised
OptimizerDivides(house_price_per_sqft, market_avg_price, avg_size, market_price_per_sqft) ==
    IF market_price_per_sqft.exc # "None" THEN FALSE
    ELSE ~ PerSqftGeq(house_price_per_sqft.value, market_avg_price.value,
                      avg_size.value, market_price_per_sqft.value)
OptimizerCompares(house_price_per_sqft, market_avg_price, avg_size) ==
    IF house_price_per_sqft.exc # "None" THEN FALSE
    ELSE IF market_avg_price.exc # "None" THEN FALSE
    ELSE IF avg_size.exc # "None" THEN FALSE
    ELSE OptimizerDivides(house_price_per_sqft, market_avg_price, avg_size,
                          RatDiv(market_avg_price.value, avg_size.value))

\* the body of the OPTIMIZER branch: TRUE when the house is kept
OptimizerKeeps(hs, house) ==
    OptimizerCompares(calculate_price_per_square_foot(house),
                      calculate_average_price(hs, NoBedrooms),
                      market_avg_size(hs))

\* the body of the AVERAGE branch: TRUE when the house is kept
AverageKeeps(hs, house) ==
    LET market_avg_price == calculate_average_price(hs, NoBedrooms)
    IN  IF market_avg_price.exc # "None" THEN FALSE
        ELSE ~ IntGtRat(house.price, market_avg_price.value)

\* the loop of get_houses_that_meet_requirements from position p on;
\* matching_houses holds positions in houses, max_price is a float
RECURSIVE MatchLoop(_, _, _, _, _)
MatchLoop(hs, max_price, segment, p, matching_houses) ==
    IF p > Len(hs) THEN Ok(matching_houses)
    ELSE IF ~ hs[p].available \/ FloatGt(Float(hs[p].price, 0), max_price)
         THEN MatchLoop(hs, max_price, segment, p + 1, matching_houses)
    ELSE IF segment = "FANCY"
         THEN LET new == is_new_construction(hs[p], current_year)
              IN  IF new.exc # "None" THEN Exc(new.exc)
                  ELSE IF ~ new.value \/ hs[p].quality_score # "EXCELLENT"
                       THEN MatchLoop(hs, max_price, segment, p + 1, matching_houses)
                  ELSE MatchLoop(hs, max_price, segment, p + 1, Append(matching_houses, p))
    ELSE IF segment = "OPTIMIZER"
         THEN IF OptimizerKeeps(hs, hs[p])
              THEN MatchLoop(hs, max_price, segment, p + 1, Append(matching_houses, p))
              ELSE MatchLoop(hs, max_price, segment, p + 1, matching_houses)
    ELSE IF segment = "AVERAGE"
         THEN IF AverageKeeps(hs, hs[p])
              THEN MatchLoop(hs, max_price, segment, p + 1, Append(matching_houses, p))
              ELSE MatchLoop(hs, max_price, segment, p + 1, matching_houses)
    ELSE MatchLoop(hs, max_price, segment, p + 1, Append(matching_houses, p))

\* get_houses_that_meet_requirements with `max_price < 0` for `max_price <= 0`
get_houses_that_meet_requirements_ZeroAllowed(hs, max_price, segment) ==
    IF FloatGt(Float(0, 0), max_price) THEN Exc("ValueError")
    ELSE MatchLoop(hs, max_price, segment, 1, <<>>)

\* HousingMarket.get_houses_that_meet_requirements
get_houses_that_meet_requirements(hs, max_price, segment) ==
    IF FloatLeqZero(max_price) THEN Exc("ValueError")
    ELSE MatchLoop(hs, max_price, segment, 1, <<>>)

----------------------------------------------------------------------------
(* consumers.py: Consumer *)

\* Consumer.compute_savings.  The loop keeps the running total as the exact
\* rational total.num / total.den cents; round(self.savings, 2) ends it.
\* the loop with its two statements exchanged: interest on the total first, the
\* contribution after it
RECURSIVE SavingsLoop_InterestFirst(_, _, _, _)
SavingsLoop_InterestFirst(total, annual_contribution, rate, n) ==
    IF n = 0 THEN total
    ELSE LET grown == Norm(total.num * (rate.den + rate.num), total.den * rate.den)
             added == Norm(grown.num * annual_contribution.den
                              + annual_contribution.num * grown.den,
                           grown.den * annual_contribution.den)
         IN  SavingsLoop_InterestFirst(added, annual_contribution, rate, n - 1)

RECURSIVE SavingsLoop(_, _, _, _)
SavingsLoop(total, annual_contribution, rate, n) ==
    IF n = 0 THEN total
    ELSE LET added == Norm(total.num * annual_contribution.den
                              + annual_contribution.num * total.den,
                           total.den * annual_contribution.den)
             grown == Norm(added.num * (rate.den + rate.num), added.den * rate.den)
         IN  SavingsLoop(grown, annual_contribution, rate, n - 1)

compute_savings(consumer, n_years) ==
    IF n_years < 0 THEN Exc("ValueError")
    ELSE LET annual_contribution ==
                 Norm(consumer.annual_income * consumer.saving_rate.num,
                      consumer.saving_rate.den)
             total == SavingsLoop([num |-> consumer.savings, den |-> 1],
                                  annual_contribution, consumer.interest_rate, n_years)
         IN  Ok([consumer EXCEPT !.savings = Round(total.num, total.den),
                                 !.savings_ulp = 0])

\* the deduction if it were price * down_payment_percentage
DownPayment_Configured(price) ==
    (price * down_payment_percentage.num) \div down_payment_percentage.den

\* selected_house.price * 0.2, a whole number of cents for the prices of the model
DownPayment(price) == (price * down_payment.num) \div down_payment.den

\* `self.house is not None` never true
OwnsHouse_Never(consumer) == FALSE

\* `self.house is not None`
OwnsHouse(consumer) == consumer.house # NoHouse

\* Consumer.buy_a_house: the consumer and the market's houses after the call;
\* selected holds the position of the house bought, if one was
buy_a_house(consumer, hs) ==
    IF OwnsHouse(consumer)
    THEN [exc |-> "None", consumer |-> consumer, houses |-> hs, selected |-> <<>>]
    ELSE LET reach == consumer.savings * PriceToSavings
             \* the rounding of the product is worked out when a price meets it
             max_price == IF \E p \in Positions(hs) : hs[p].price = reach
                          THEN FloatTimes(consumer.savings, PriceToSavings)
                          ELSE Float(reach, 0)
             suitable_houses ==
                 get_houses_that_meet_requirements(hs, max_price, consumer.segment)
         IN  IF suitable_houses.exc # "None"
             THEN [exc |-> suitable_houses.exc, consumer |-> consumer, houses |-> hs,
                   selected |-> <<>>]
             ELSE IF suitable_houses.value # <<>>
             THEN LET selected_house == suitable_houses.value[1]
                      left == consumer.savings - DownPayment(hs[selected_house].price)
                  IN  [exc |-> "None",
                       consumer |->
                           [consumer EXCEPT
                               !.house = hs[selected_house].id,
                               !.savings = left,
                               !.savings_ulp =
                                   IF left = 0 THEN FloatAllSpent(consumer.savings).ulp
                                   ELSE 0],
                       houses |->
                           [hs EXCEPT ![selected_house] = sell_house(hs[selected_house])],
                       selected |-> <<selected_house>>]
             ELSE [exc |-> "None", consumer |-> consumer, houses |-> hs, selected |-> <<>>]

----------------------------------------------------------------------------
(* simulation.py: Simulation *)

\* A value of a raw record: a number, a non-numeric text, None, or no such key
Num(v) == [kind |-> "num", v |-> v]
Text == [kind |-> "text", v |-> 0]
NoneValue == [kind |-> "none", v |-> 0]
Absent == [kind |-> "absent", v |-> 0]
\* the text 'NA'
NA == [kind |-> "na", v |-> 0]

\* Cleaner.na_to_none: every 'NA' value of every record becomes None
na_to_none(data) ==
    [k \in 1..Len(data) |->
        [key \in DOMAIN data[k] |->
            IF data[k][key].kind = "na" THEN NoneValue ELSE data[k][key]]]

\* data.get(key): None for a key the record lacks
Item_Get(data, key) == IF data[key].kind = "absent" THEN Ok(NoneValue) ELSE Ok(data[key])

\* data[key]
Item(data, key) == IF data[key].kind = "absent" THEN Exc("KeyError") ELSE Ok(data[key])

\* int(x) and float(x) of a raw value
ToNumber(x) ==
    IF x.kind = "num" THEN Ok(x.v)
    ELSE IF x.kind \in {"text", "na"} THEN Exc("ValueError")
    ELSE Exc("TypeError")

\* int(data[key]), float(data[key])
Converted(data, key) ==
    LET item == Item(data, key)
    IN  IF item.exc # "None" THEN item ELSE ToNumber(item.value)

\* the mapping of overall_qual to a QualityScore
QualityOf(score_value) ==
    IF score_value <= 2 THEN "POOR"
    ELSE IF score_value <= 4 THEN "FAIR"
    ELSE IF score_value <= 6 THEN "AVERAGE"
    ELSE IF score_value <= 8 THEN "GOOD"
    ELSE "EXCELLENT"

\* the body of the try block of create_housing_market for record idx
HouseOfRecord(idx, data) ==
    LET score_value == Converted(data, "overall_qual")
        price == Converted(data, "sale_price")
        area == Converted(data, "gr_liv_area")
        bedrooms == Converted(data, "bedroom_abv_gr")
        year_built == Converted(data, "year_built")
    IN  IF data["overall_qual"].kind # "absent" /\ score_value.exc # "None"
        THEN Exc(score_value.exc)
        ELSE IF price.exc # "None" THEN Exc(price.exc)
        ELSE IF area.exc # "None" THEN Exc(area.exc)
        ELSE IF bedrooms.exc # "None" THEN Exc(bedrooms.exc)
        ELSE IF year_built.exc # "None" THEN Exc(year_built.exc)
        ELSE Ok([id |-> idx,
                 price |-> price.value,
                 area |-> area.value,
                 bedrooms |-> bedrooms.value,
                 year_built |-> year_built.value,
                 quality_score |->
                     IF data["overall_qual"].kind = "absent" THEN NoQuality
                     ELSE QualityOf(score_value.value),
                 available |-> TRUE])

\* the loop of create_housing_market over enumerate(housing_market_data):
\* KeyError and ValueError skip the record, any other exception leaves the method
RECURSIVE BuildLoop(_, _, _)
BuildLoop(data, k, hs) ==
    IF k > Len(data) THEN Ok(hs)
    ELSE LET house == HouseOfRecord(k - 1, data[k])
         IN  IF house.exc = "None" THEN BuildLoop(data, k + 1, Append(hs, house.value))
             ELSE IF house.exc \in {"KeyError", "ValueError"} THEN BuildLoop(data, k + 1, hs)
             ELSE Exc(house.exc)

create_housing_market(data) == BuildLoop(data, 1, <<>>)

\* the permutations of 1..n, as sequences
Perms(n) == {f \in [1..n -> 1..n] : \A i, j \in 1..n : f[i] = f[j] => i = j}

\* list.sort(key = annual_income), stable, on the positions of cs
SortedOrder(cs, reverse) ==
    CHOOSE f \in Perms(Len(cs)) :
        \A a, b \in 1..Len(cs) :
            a < b =>
                \/ /\ reverse
                   /\ cs[f[a]].annual_income > cs[f[b]].annual_income
                \/ /\ ~ reverse
                   /\ cs[f[a]].annual_income < cs[f[b]].annual_income
                \/ /\ cs[f[a]].annual_income = cs[f[b]].annual_income
                   /\ f[a] < f[b]

\* the orders clean_the_market may process the consumers in
ProcessingOrders(cs, mechanism) ==
    IF mechanism = "INCOME_ORDER_DESCENDANT" THEN {SortedOrder(cs, TRUE)}
    ELSE IF mechanism = "INCOME_ORDER_ASCENDANT" THEN {SortedOrder(cs, FALSE)}
    ELSE IF mechanism = "RANDOM" THEN Perms(Len(cs))
    ELSE {[i \in 1..Len(cs) |-> i]}

\* the loop of clean_the_market: consumer.buy_a_house for each consumer of
\* consumers_to_process from position k on; an exception ends the loop.
\* calls lists the consumers buy_a_house was called on.
RECURSIVE ProcessLoop(_, _, _, _, _)
ProcessLoop(consumers_to_process, k, cs, hs, calls) ==
    IF k > Len(consumers_to_process)
    THEN [exc |-> "None", consumers |-> cs, houses |-> hs, calls |-> calls]
    ELSE LET c == consumers_to_process[k]
             bought == buy_a_house(cs[c], hs)
         IN  IF bought.exc # "None"
             THEN [exc |-> bought.exc, consumers |-> cs, houses |-> hs,
                   calls |-> Append(calls, c)]
             ELSE ProcessLoop(consumers_to_process, k + 1,
                              [cs EXCEPT ![c] = bought.consumer], bought.houses,
                              Append(calls, c))

\* Simulation.compute_owners_population_rate: owners / len(self.consumers), as
\* the pair [num, den]; `as` holds the attributes the simulation has
compute_owners_population_rate(as, cs) ==
    IF "consumers" \notin as THEN Exc("RuntimeError")
    ELSE LET owners == Cardinality({c \in Positions(cs) : OwnsHouse(cs[c])})
         IN  IF Len(cs) = 0 THEN Exc("ZeroDivisionError")
             ELSE Ok([num |-> owners, den |-> Len(cs)])

\* Simulation.compute_houses_availability_rate: available / len(houses)
compute_houses_availability_rate(as, hs) ==
    IF "housing_market" \notin as THEN Exc("RuntimeError")
    ELSE LET available == Cardinality(AvailablePositions(hs))
         IN  IF Len(hs) = 0 THEN Exc("ZeroDivisionError")
             ELSE Ok([num |-> available, den |-> Len(hs)])

----------------------------------------------------------------------------
(* Inputs *)

Raw(price, area, bedrooms, year_built, qual) ==
    [sale_price |-> price, gr_liv_area |-> area, bedroom_abv_gr |-> bedrooms,
     year_built |-> year_built, overall_qual |-> qual]

\* The raw records the market data is drawn from (prices in cents):
\* a new EXCELLENT house, an old AVERAGE one, one built in the future
RawRecords ==
    { Raw(Num(1000), Num(20), Num(2), Num(2022), Num(9)),
      Raw(Num(1575), Num(20), Num(3), Num(2000), Num(5)),
      Raw(Num(500), Num(20), Num(3), Num(2025), Num(9)) }

SeqsUpTo(S, n) == UNION {[1..k -> S] : k \in 0..n}

\* the values gauss() is taken to return, in cents
IncomeDraws == {800, 1000, 2000}

\* a Consumer as create_consumers builds it
NewConsumer(i, income, children, segment) ==
    [id |-> i, annual_income |-> income, children_number |-> children,
     segment |-> segment, house |-> NoHouse, savings |-> 0, savings_ulp |-> 0,
     saving_rate |-> saving_rate, interest_rate |-> interest_rate]

\* no call of create_consumers is running
NoFrame == [pc |-> "idle", consumers |-> <<>>, income |-> 0]

NoRet == [op |-> "init", exc |-> "None", arg |-> <<>>, segment |-> "", value |-> <<>>]
Ret(op, exc, arg, segment, value) ==
    [op |-> op, exc |-> exc, arg |-> arg, segment |-> segment, value |-> value]

Init ==
    /\ housing_market_data \in SeqsUpTo(RawRecords, MaxHouses)
    /\ consumers_number \in 0..MaxConsumers
    /\ years \in 0..MaxYears
    /\ annual_income = [minimum |-> 500, average |-> 900,
                        standard_deviation |-> 300, maximum |-> 1500]
    /\ children_range = [minimum |-> 0, maximum |-> 0]
    /\ cleaning_market_mechanism \in Mechanisms
    /\ saving_rate = [num |-> 3, den |-> 10]
    /\ interest_rate = [num |-> 1, den |-> 20]
    /\ down_payment_percentage = [num |-> 2, den |-> 10]
    /\ attrs = {}
    /\ houses = <<>>
    /\ house_index = <<>>
    /\ consumers = <<>>
    /\ frame = NoFrame
    /\ ret = NoRet

----------------------------------------------------------------------------
(* Operations *)

\* Simulation.create_housing_market, once per run
CreateHousingMarket ==
    /\ "housing_market" \notin attrs
    /\ LET built == create_housing_market(housing_market_data)
       IN  IF built.exc = "None"
           THEN /\ houses' = built.value
                /\ house_index' = HouseIndex(built.value)
                /\ attrs' = attrs \cup {"housing_market"}
                /\ ret' = Ret("create_housing_market", "None", <<>>, "", <<>>)
           ELSE /\ UNCHANGED <<market, attrs>>
                /\ ret' = Ret("create_housing_market", built.exc, <<>>, "", <<>>)
    /\ UNCHANGED <<config, frame, consumers>>

\* Simulation.create_consumers, once per run: every income is redrawn until it
\* lies within [minimum, maximum]
CreateConsumers ==
    /\ "consumers" \notin attrs
    /\ \E draw \in [1..consumers_number ->
                      {i \in IncomeDraws :
                          annual_income.minimum <= i /\ i <= annual_income.maximum}
                      \X (children_range.minimum..children_range.maximum)
                      \X Segments] :
           consumers' = [i \in 1..consumers_number |->
                            NewConsumer(i - 1, draw[i][1], draw[i][2], draw[i][3])]
    /\ attrs' = attrs \cup {"consumers"}
    /\ ret' = Ret("create_consumers", "None", <<>>, "", <<>>)
    /\ UNCHANGED <<config, frame, market>>

\* Simulation.compute_consumers_savings
ComputeConsumersSavings ==
    /\ \A c \in Positions(consumers) : consumers[c].savings <= SavingsCap
    /\ IF "consumers" \notin attrs
       THEN /\ ret' = Ret("compute_consumers_savings", "RuntimeError", <<>>, "", <<>>)
            /\ UNCHANGED consumers
       ELSE /\ consumers' = [c \in Positions(consumers) |->
                                compute_savings(consumers[c], years).value]
            /\ ret' = Ret("compute_consumers_savings", "None", <<>>, "", <<>>)
    /\ UNCHANGED <<config, frame, market, attrs>>

\* Consumer.compute_savings(n_years) of consumer c
ComputeSavings(c, n_years) ==
    /\ consumers[c].savings <= SavingsCap
    /\ LET saved == compute_savings(consumers[c], n_years)
       IN  IF saved.exc # "None"
           THEN /\ UNCHANGED consumers
                /\ ret' = Ret("compute_savings", saved.exc, <<c, n_years>>, "", <<>>)
           ELSE /\ consumers' = [consumers EXCEPT ![c] = saved.value]
                /\ ret' = Ret("compute_savings", "None", <<c, n_years>>, "", <<>>)
    /\ UNCHANGED <<config, frame, market, attrs>>

\* Consumer.buy_a_house(housing_market) of consumer c
BuyAHouse(c) ==
    /\ "housing_market" \in attrs
    /\ LET bought == buy_a_house(consumers[c], houses)
       IN  /\ consumers' = [consumers EXCEPT ![c] = bought.consumer]
           /\ houses' = bought.houses
           /\ ret' = Ret("buy_a_house", bought.exc, <<c>>, "", bought.selected)
    /\ UNCHANGED <<config, frame, house_index, attrs>>

\* Simulation.clean_the_market
CleanTheMarket ==
    /\ IF "consumers" \notin attrs \/ "housing_market" \notin attrs
       THEN /\ ret' = Ret("clean_the_market", "RuntimeError", <<>>, "", <<>>)
            /\ UNCHANGED <<consumers, houses>>
       ELSE \E consumers_to_process \in
                   ProcessingOrders(consumers, cleaning_market_mechanism) :
               LET done == ProcessLoop(consumers_to_process, 1, consumers, houses, <<>>)
               IN  /\ consumers' = done.consumers
                   /\ houses' = done.houses
                   /\ ret' = Ret("clean_the_market", done.exc, consumers_to_process,
                                 "", done.calls)
    /\ UNCHANGED <<config, frame, house_index, attrs>>

\* House.sell_house of the house at position p
SellHouse(p) ==
    /\ houses' = [houses EXCEPT ![p] = sell_house(houses[p])]
    /\ ret' = Ret("sell_house", "None", <<p>>, "", <<>>)
    /\ UNCHANGED <<config, frame, house_index, attrs, consumers>>

\* HousingMarket.get_houses_that_meet_requirements(max_price, segment), as a query
GetHousesThatMeetRequirements(max_price, segment) ==
    /\ "housing_market" \in attrs
    /\ LET found == get_houses_that_meet_requirements(houses, Float(max_price, 0),
                                                      segment)
       IN  ret' = Ret("get_houses_that_meet_requirements", found.exc, <<max_price>>, segment,
                      IF found.exc = "None" THEN found.value ELSE <<>>)
    /\ UNCHANGED <<config, frame, market, attrs, consumers>>

\* HousingMarket.get_house_by_id(house_id), as a query: the house is returned
\* as <<its position in houses>>, None as <<>>
GetHouseById(house_id) ==
    /\ "housing_market" \in attrs
    /\ LET found == get_house_by_id(house_index, house_id)
       IN  ret' = Ret("get_house_by_id", "None", <<house_id>>, "",
                      IF found = 0 THEN <<>> ELSE <<found>>)
    /\ UNCHANGED <<config, frame, market, attrs, consumers>>

\* Simulation.compute_owners_population_rate; the rate is returned as
\* <<owners, consumers>>
ComputeOwnersPopulationRate ==
    /\ LET rate == compute_owners_population_rate(attrs, consumers)
       IN  ret' = Ret("compute_owners_population_rate", rate.exc, <<>>, "",
                      IF rate.exc = "None" THEN <<rate.value.num, rate.value.den>>
                      ELSE <<>>)
    /\ UNCHANGED <<config, frame, market, attrs, consumers>>

\* Simulation.compute_houses_availability_rate; the rate is returned as
\* <<available, houses>>
ComputeHousesAvailabilityRate ==
    /\ LET rate == compute_houses_availability_rate(attrs, houses)
       IN  ret' = Ret("compute_houses_availability_rate", rate.exc, <<>>, "",
                      IF rate.exc = "None" THEN <<rate.value.num, rate.value.den>>
                      ELSE <<>>)
    /\ UNCHANGED <<config, frame, market, attrs, consumers>>

\* HousingMarket.calculate_average_price(bedrooms), as a query: the mean is
\* returned as <<sum of prices, number of prices>>
CalculateAveragePrice(bedrooms) ==
    /\ "housing_market" \in attrs
    /\ LET average == calculate_average_price(houses, bedrooms)
       IN  ret' = Ret("calculate_average_price", average.exc, bedrooms, "",
                      IF average.exc = "None"
                      THEN <<average.value.num, average.value.den>> ELSE <<>>)
    /\ UNCHANGED <<config, frame, market, attrs, consumers>>

\* The simulation run: the operations of Simulation, and a consumer's own purchase
Next ==
    \/ CreateHousingMarket
    \/ CreateConsumers
    \/ ComputeConsumersSavings
    \/ CleanTheMarket
    \/ \E c \in Positions(consumers) : BuyAHouse(c)

Spec == Init /\ [][Next]_vars

\* the max_price of the queries of the run below, in cents
ApiQueryPrice == 1200

\* The run with the houses and the market also used directly: a house sold
\* through House.sell_house, the market queried.  One mechanism, one number of
\* years and incomes within [900, 1100]: RANDOM processes the consumers in every
\* order.
InitApi ==
    /\ housing_market_data \in SeqsUpTo(RawRecords, MaxHouses)
    /\ consumers_number \in 0..MaxConsumers
    /\ years = 1
    /\ annual_income = [minimum |-> 900, average |-> 1000,
                        standard_deviation |-> 50, maximum |-> 1100]
    /\ children_range = [minimum |-> 0, maximum |-> 0]
    /\ cleaning_market_mechanism = "RANDOM"
    /\ saving_rate = [num |-> 3, den |-> 10]
    /\ interest_rate = [num |-> 1, den |-> 20]
    /\ down_payment_percentage = [num |-> 2, den |-> 10]
    /\ attrs = {}
    /\ houses = <<>>
    /\ house_index = <<>>
    /\ consumers = <<>>
    /\ frame = NoFrame
    /\ ret = NoRet

NextApi ==
    \/ Next
    \/ \E p \in Positions(houses) : SellHouse(p)
    \/ \E segment \in Segments : GetHousesThatMeetRequirements(ApiQueryPrice, segment)

SpecApi == InitApi /\ [][NextApi]_vars

\* The market alone, sold from and queried.  Its records: a new EXCELLENT house,
\* one built in the future, a new one without overall_qual, an EXCELLENT one of
\* age 5, one built before 1800, a new GOOD one
MarketRecords ==
    { Raw(Num(1000), Num(20), Num(2), Num(2022), Num(9)),
      Raw(Num(500), Num(20), Num(3), Num(2025), Num(9)),
      Raw(Num(3000), Num(50), Num(3), Num(2020), Absent),
      Raw(Num(800), Num(10), Num(2), Num(2019), Num(10)),
      Raw(Num(600), Num(10), Num(1), Num(1700), Num(9)),
      Raw(Num(1200), Num(30), Num(2), Num(2021), Num(8)) }

\* the max_price values of the queries, in cents
QueryPrices == {0, 500, 1200, 4000}

InitMarket ==
    /\ housing_market_data \in SeqsUpTo(MarketRecords, MaxMarketHouses)
    /\ consumers_number = 0
    /\ years = 0
    /\ annual_income = [minimum |-> 500, average |-> 900,
                        standard_deviation |-> 300, maximum |-> 1500]
    /\ children_range = [minimum |-> 0, maximum |-> 0]
    /\ cleaning_market_mechanism = "INCOME_ORDER_DESCENDANT"
    /\ saving_rate = [num |-> 3, den |-> 10]
    /\ interest_rate = [num |-> 1, den |-> 20]
    /\ down_payment_percentage = [num |-> 2, den |-> 10]
    /\ attrs = {}
    /\ houses = <<>>
    /\ house_index = <<>>
    /\ consumers = <<>>
    /\ frame = NoFrame
    /\ ret = NoRet

NextMarket ==
    \/ CreateHousingMarket
    \/ \E p \in Positions(houses) : SellHouse(p)
    \/ \E max_price \in QueryPrices : \E segment \in Segments :
           GetHousesThatMeetRequirements(max_price, segment)

SpecMarket == InitMarket /\ [][NextMarket]_vars

\* The run with its two rates read in between: populations of 0 to
\* MaxConsumers consumers, markets of 0 to MaxHouses houses
InitRates ==
    /\ housing_market_data \in SeqsUpTo(RawRecords, MaxHouses)
    /\ consumers_number \in 0..MaxConsumers
    /\ years = 2
    /\ annual_income = [minimum |-> 900, average |-> 1000,
                        standard_deviation |-> 50, maximum |-> 1100]
    /\ children_range = [minimum |-> 0, maximum |-> 0]
    /\ cleaning_market_mechanism = "INCOME_ORDER_DESCENDANT"
    /\ saving_rate = [num |-> 3, den |-> 10]
    /\ interest_rate = [num |-> 1, den |-> 20]
    /\ down_payment_percentage = [num |-> 2, den |-> 10]
    /\ attrs = {}
    /\ houses = <<>>
    /\ house_index = <<>>
    /\ consumers = <<>>
    /\ frame = NoFrame
    /\ ret = NoRet

NextRates ==
    \/ Next
    \/ ComputeOwnersPopulationRate
    \/ ComputeHousesAvailabilityRate

SpecRates == InitRates /\ [][NextRates]_vars

\* The market built from cleaned records.  The records before cleaning: two
\* complete ones, one without overall_qual, one without sale_price, one with a
\* text for gr_liv_area, one with a text for overall_qual, one with 'NA' for
\* sale_price and one with 'NA' for overall_qual
MaxBuildHouses == 3

BuildRecords ==
    { Raw(Num(1000), Num(20), Num(2), Num(2022), Num(9)),
      Raw(Num(1575), Num(20), Num(3), Num(2000), Num(5)),
      Raw(Num(3000), Num(50), Num(3), Num(2020), Absent),
      Raw(Absent, Num(20), Num(2), Num(2010), Num(7)),
      Raw(Num(800), Text, Num(2), Num(2010), Num(7)),
      Raw(Num(800), Num(10), Num(2), Num(2010), Text),
      Raw(NA, Num(10), Num(2), Num(2019), Num(10)),
      Raw(Num(600), Num(10), Num(1), Num(2015), NA) }

InitBuild ==
    /\ housing_market_data \in
           {na_to_none(data) : data \in SeqsUpTo(BuildRecords, MaxBuildHouses)}
    /\ consumers_number = 0
    /\ years = 0
    /\ annual_income = [minimum |-> 500, average |-> 900,
                        standard_deviation |-> 300, maximum |-> 1500]
    /\ children_range = [minimum |-> 0, maximum |-> 0]
    /\ cleaning_market_mechanism = "INCOME_ORDER_DESCENDANT"
    /\ saving_rate = [num |-> 3, den |-> 10]
    /\ interest_rate = [num |-> 1, den |-> 20]
    /\ down_payment_percentage = [num |-> 2, den |-> 10]
    /\ attrs = {}
    /\ houses = <<>>
    /\ house_index = <<>>
    /\ consumers = <<>>
    /\ frame = NoFrame
    /\ ret = NoRet

NextBuild ==
    \/ CreateHousingMarket
    \/ \E p \in Positions(houses) : SellHouse(p)
    \/ ComputeHousesAvailabilityRate
    \/ \E house_id \in 0..MaxBuildHouses : GetHouseById(house_id)

SpecBuild == InitBuild /\ [][NextBuild]_vars

\* The market of the segment rules.  Its records: three houses of which the
\* third costs per area exactly what the three cost on average (14.00 / 20 =
\* 0.70 = 7.00 / 10), one of area 0 and one of negative area; bedrooms 0, 2
\* and 3
MaxRuleHouses == 3

RuleRecords ==
    { Raw(Num(100), Num(5), Num(0), Num(2022), Num(9)),
      Raw(Num(600), Num(5), Num(2), Num(2000), Num(5)),
      Raw(Num(700), Num(10), Num(3), Num(2021), Num(10)),
      Raw(Num(400), Num(0), Num(2), Num(2010), Num(5)),
      Raw(Num(300), Num(0 - 10), Num(3), Num(2010), Absent) }

\* the max_price values of its queries, in cents
RulePrices == {0 - 100, 0, 600, 1000}

\* the bedrooms arguments of calculate_average_price: None, -1, 0, 2, 3
BedroomChoices == {NoBedrooms, <<0 - 1>>, <<0>>, <<2>>, <<3>>}

InitRules ==
    /\ housing_market_data \in SeqsUpTo(RuleRecords, MaxRuleHouses)
    /\ consumers_number = 0
    /\ years = 0
    /\ annual_income = [minimum |-> 500, average |-> 900,
                        standard_deviation |-> 300, maximum |-> 1500]
    /\ children_range = [minimum |-> 0, maximum |-> 0]
    /\ cleaning_market_mechanism = "INCOME_ORDER_DESCENDANT"
    /\ saving_rate = [num |-> 3, den |-> 10]
    /\ interest_rate = [num |-> 1, den |-> 20]
    /\ down_payment_percentage = [num |-> 2, den |-> 10]
    /\ attrs = {}
    /\ houses = <<>>
    /\ house_index = <<>>
    /\ consumers = <<>>
    /\ frame = NoFrame
    /\ ret = NoRet

NextRules ==
    \/ CreateHousingMarket
    \/ \E p \in Positions(houses) : SellHouse(p)
    \/ \E max_price \in RulePrices : \E segment \in Segments :
           GetHousesThatMeetRequirements(max_price, segment)
    \/ \E bedrooms \in BedroomChoices : CalculateAveragePrice(bedrooms)

SpecRules == InitRules /\ [][NextRules]_vars

----------------------------------------------------------------------------
(* Properties.  The definitions below state what the specification says;  *)
(* they do not use the operators that model the code's eligibility rules. *)

Range(f) == {f[x] : x \in DOMAIN f}

Unavailable(hs) == {p \in Positions(hs) : ~ hs[p].available}
Owners(cs) == {c \in Positions(cs) : cs[c].house # NoHouse}

RECURSIVE SumOver(_, _)
SumOver(f, S) ==
    IF S = {} THEN 0
    ELSE LET x == CHOOSE y \in S : TRUE IN f[x] + SumOver(f, S \ {x})

PriceOf(hs) == [p \in Positions(hs) |-> hs[p].price]
AreaOf(hs) == [p \in Positions(hs) |-> hs[p].area]

ValidYear(house) == 1800 <= house.year_built /\ house.year_built <= 2024

\* the segment rules of eligibleHouses
FancyRule(hs, p) ==
    /\ ValidYear(hs[p])
    /\ 2024 - hs[p].year_built < 5
    /\ hs[p].quality_score = "EXCELLENT"

AverageRule(hs, p) ==
    LET av == {q \in Positions(hs) : hs[q].available}
    IN  /\ av # {}
        /\ hs[p].price * Cardinality(av) <= SumOver(PriceOf(hs), av)

OptimizerRule(hs, p) ==
    LET av == {q \in Positions(hs) : hs[q].available}
        total_price == SumOver(PriceOf(hs), av)
        total_area == SumOver(AreaOf(hs), av)
    IN  /\ av # {}
        /\ hs[p].area > 0
        /\ total_area # 0
        /\ \/ total_area > 0 /\ Round(hs[p].price, hs[p].area) * total_area < total_price
           \/ total_area < 0 /\ Round(hs[p].price, hs[p].area) * total_area > total_price

\* the houses eligible under (max_price, segment), as a set of positions
EligibleSet(hs, max_price, segment) ==
    {p \in Positions(hs) :
        /\ max_price > 0
        /\ hs[p].available
        /\ hs[p].price <= max_price
        /\ CASE segment = "FANCY" -> FancyRule(hs, p)
             [] segment = "OPTIMIZER" -> OptimizerRule(hs, p)
             [] segment = "AVERAGE" -> AverageRule(hs, p)}

\* C1: no house is the owned house of two different consumers, and the number of
\* unavailable houses never exceeds the number of houses available when the market
\* was built, whatever the clearing policy and however many passes have run.
C1_NoDoubleSale ==
    /\ \A c1, c2 \in Owners(consumers) :
           c1 # c2 => consumers[c1].house # consumers[c2].house
    /\ "housing_market" \in attrs =>
           Cardinality(Unavailable(houses))
               <= Len(create_housing_market(housing_market_data).value)

\* a clearing pass has ended with two consumers owning a house each
C1_Witness ==
    /\ ret.op = "clean_the_market"
    /\ ret.exc = "None"
    /\ Cardinality(Owners(consumers)) = 2
    /\ Cardinality(Unavailable(houses)) = 2

\* C2 (as claimed): with population and market present, clean_the_market ends
\* without an exception after calling buy_a_house on every consumer; otherwise it
\* raises the precondition error and changes no consumer and no house.
C2_ClearMarketCompletes ==
    [][ret'.op = "clean_the_market" =>
          IF {"consumers", "housing_market"} \subseteq attrs
          THEN /\ ret'.exc = "None"
               /\ Range(ret'.value) = Positions(consumers)
          ELSE /\ ret'.exc = "RuntimeError"
               /\ UNCHANGED <<consumers, houses>>]_vars

\* C3 (as claimed): buy_a_house by a consumer without a house, for whom no
\* house is eligible under (savings * 5, segment), raises nothing and leaves the
\* consumers and the houses as they were.
C3_NoEligibleHouseIsSilentNoOp ==
    [][\A c \in Positions(consumers) :
           ( /\ ret'.op = "buy_a_house"
             /\ ret'.arg = <<c>>
             /\ consumers[c].house = NoHouse
             /\ EligibleSet(houses, consumers[c].savings * 5, consumers[c].segment) = {} )
           => ( /\ ret'.exc = "None"
                /\ consumers' = consumers
                /\ houses' = houses )]_vars

\* C4 (as claimed): buy_a_house by a consumer without a house, with a house
\* eligible under (savings * 5, segment), gives the consumer the first eligible
\* house of the list, makes that house unavailable and takes 0.2 * price
\* from the savings.
C4_BuysFirstEligible ==
    [][\A c \in Positions(consumers) :
           LET eligible == EligibleSet(houses, consumers[c].savings * 5,
                                       consumers[c].segment)
               first == CHOOSE p \in eligible : \A q \in eligible : p <= q
           IN  ( /\ ret'.op = "buy_a_house"
                 /\ ret'.arg = <<c>>
                 /\ consumers[c].house = NoHouse
                 /\ eligible # {} )
               => ( /\ consumers'[c].house = houses[first].id
                    /\ ~ houses'[first].available
                    /\ 5 * (consumers[c].savings - consumers'[c].savings)
                           = houses[first].price )]_vars

\* C5 (as claimed): a consumer with income > 0, saving rate >= 0 and interest
\* rate >= 0 never holds negative savings, whatever accumulations and purchases
\* have happened.
C5_SavingsNeverNegative ==
    \A c \in Positions(consumers) :
        ( /\ consumers[c].annual_income > 0
          /\ consumers[c].saving_rate.num >= 0
          /\ consumers[c].interest_rate.num >= 0 )
        => \/ consumers[c].savings > 0
           \/ consumers[c].savings = 0 /\ consumers[c].savings_ulp >= 0

C7_AvailabilityNeverReturns ==
    [][/\ \A p \in Positions(houses) :
              ~ houses[p].available
              => (p \in Positions(houses') /\ ~ houses'[p].available)
       /\ ret'.op = "sell_house"
              => /\ ~ houses'[ret'.arg[1]].available
                 /\ ~ houses[ret'.arg[1]].available => houses' = houses]_vars

\* sell_house has just been called on a house a consumer had already bought
C7_Witness ==
    /\ ret.op = "sell_house"
    /\ \E c \in Owners(consumers) : consumers[c].house = houses[ret.arg[1]].id

\* C8 (as claimed): a FANCY query with max_price > 0 returns normally and leaves
\* out the houses whose year built is after 2024 or before 1800.
C8_InvalidYearIsLeftOut ==
    ( /\ ret.op = "get_houses_that_meet_requirements"
      /\ ret.segment = "FANCY"
      /\ ret.arg[1] > 0 )
    => ( /\ ret.exc = "None"
         /\ \A p \in Range(ret.value) : ValidYear(houses[p]) )

\* C9: a FANCY query with max_price > 0 on houses with valid years returns, in
\* list order, exactly the available houses with price <= max_price, age < 5
\* relative to 2024 and quality EXCELLENT.
C9_FancyIsNewAndExcellent ==
    ( /\ ret.op = "get_houses_that_meet_requirements"
      /\ ret.segment = "FANCY"
      /\ ret.arg[1] > 0
      /\ \A p \in Positions(houses) : ValidYear(houses[p]) )
    => ( /\ ret.exc = "None"
         /\ ret.value = SetToSeq({p \in Positions(houses) :
                                     /\ houses[p].available
                                     /\ houses[p].price <= ret.arg[1]
                                     /\ 2024 - houses[p].year_built < 5
                                     /\ houses[p].quality_score = "EXCELLENT"}) )

\* a FANCY query has returned a house and left out a new, affordable, available
\* one whose quality is unset
C9_Witness ==
    /\ ret.op = "get_houses_that_meet_requirements"
    /\ ret.segment = "FANCY"
    /\ ret.arg[1] > 0
    /\ \A p \in Positions(houses) : ValidYear(houses[p])
    /\ ret.value # <<>>
    /\ \E p \in Positions(houses) :
           /\ houses[p].available
           /\ houses[p].price <= ret.arg[1]
           /\ 2024 - houses[p].year_built < 5
           /\ houses[p].quality_score = NoQuality
           /\ p \notin Range(ret.value)

Queried(segment) ==
    /\ ret.op = "get_houses_that_meet_requirements"
    /\ ret.segment = segment

\* C11: for an OPTIMIZER query with max_price > 0 the returned houses are exactly
\* the available houses priced at most max_price whose price per area is
\* strictly below (average price over the available houses) / (average area
\* over the available houses); a house whose price per area equals that ratio
\* is not returned.
C11_OptimizerIsStrictlyBelowMarketRatio ==
    (Queried("OPTIMIZER") /\ ret.arg[1] > 0) =>
        /\ ret.exc = "None"
        /\ Range(ret.value) = EligibleSet(houses, ret.arg[1], "OPTIMIZER")


\* C12: in an OPTIMIZER query with max_price > 0 a house whose price per area
\* cannot be computed (its own area is zero or negative), or any house when the
\* average area of the available houses is zero, is left out, and the query
\* returns normally.
C12_OptimizerFailureExcludes ==
    (Queried("OPTIMIZER") /\ ret.arg[1] > 0) =>
        /\ ret.exc = "None"
        /\ \A p \in Range(ret.value) :
               /\ houses[p].area > 0
               /\ SumOver(AreaOf(houses), AvailablePositions(houses)) # 0

\* an OPTIMIZER query returned a house and left out an available, affordable
\* house of area zero or less
C12_Witness ==
    /\ Queried("OPTIMIZER")
    /\ ret.exc = "None"
    /\ ret.value # <<>>
    /\ \E p \in AvailablePositions(houses) :
           /\ houses[p].area <= 0
           /\ houses[p].price <= ret.arg[1]
           /\ p \notin Range(ret.value)


\* C13: for every segment and every max_price > 0 the returned list holds no
\* unavailable house and no house priced above max_price, holds each house at
\* most once, and keeps the houses in the order of the market's list.
C13_ReturnedHousesAreAvailableAffordableInOrder ==
    (ret.op = "get_houses_that_meet_requirements" /\ ret.arg[1] > 0 /\ ret.exc = "None") =>
        /\ \A k \in 1..Len(ret.value) :
               /\ houses[ret.value[k]].available
               /\ houses[ret.value[k]].price <= ret.arg[1]
        /\ \A k, l \in 1..Len(ret.value) : k < l => ret.value[k] < ret.value[l]

\* a query returned a house from a market that also holds a sold house and an
\* available house priced above max_price
C13_Witness ==
    /\ ret.op = "get_houses_that_meet_requirements"
    /\ ret.exc = "None"
    /\ ret.value # <<>>
    /\ Unavailable(houses) # {}
    /\ \E p \in AvailablePositions(houses) : houses[p].price > ret.arg[1]

Matching(hs, bedrooms) ==
    {p \in Positions(hs) :
        /\ hs[p].available
        /\ (bedrooms = <<>> \/ hs[p].bedrooms = bedrooms[1])}

\* C15: calculate_average_price(bedrooms) returns the arithmetic mean of the
\* prices of the available houses, of those with exactly `bedrooms` bedrooms
\* when bedrooms is given (0 is a filter like any other count); it fails with a
\* ValueError when bedrooms is negative or when no available house matches,
\* which includes the market whose houses are all sold.
C15_AveragePriceIsMeanOverAvailable ==
    ret.op = "calculate_average_price" =>
        IF (ret.arg # <<>> /\ ret.arg[1] < 0) \/ Matching(houses, ret.arg) = {}
        THEN ret.exc = "ValueError"
        ELSE /\ ret.exc = "None"
             /\ ret.value[1] * Cardinality(Matching(houses, ret.arg))
                    = SumOver(PriceOf(houses), Matching(houses, ret.arg)) * ret.value[2]

\* calculate_average_price(0) returned a mean from a market that also holds a
\* sold house and an available house with another number of bedrooms
C15_Witness ==
    /\ ret.op = "calculate_average_price"
    /\ ret.arg = <<0>>
    /\ ret.exc = "None"
    /\ Unavailable(houses) # {}
    /\ \E p \in AvailablePositions(houses) : houses[p].bedrooms # 0


\* C16: one pass of clean_the_market calls buy_a_house on every consumer
\* exactly once: the calls are a permutation of the population, by
\* non-increasing annual income under INCOME_ORDER_DESCENDANT, by non-decreasing
\* annual income under INCOME_ORDER_ASCENDANT, any permutation under RANDOM;
\* and the simulation's own list of consumers keeps its order.
C16_PassCallsEveryConsumerOnceInOrder ==
    [][(ret'.op = "clean_the_market" /\ {"consumers", "housing_market"} \subseteq attrs) =>
          LET calls == ret'.value
          IN  /\ Len(calls) = Len(consumers)
              /\ Range(calls) = Positions(consumers)
              /\ \A a, b \in 1..Len(calls) :
                     a < b =>
                        /\ cleaning_market_mechanism = "INCOME_ORDER_DESCENDANT" =>
                               consumers[calls[a]].annual_income
                                  >= consumers[calls[b]].annual_income
                        /\ cleaning_market_mechanism = "INCOME_ORDER_ASCENDANT" =>
                               consumers[calls[a]].annual_income
                                  <= consumers[calls[b]].annual_income
              /\ \A c \in Positions(consumers) : consumers'[c].id = consumers[c].id]_vars


\* C17: a consumer's house, once set, never changes; buy_a_house by a consumer
\* who owns a house, called directly or by clean_the_market, raises nothing and
\* leaves that consumer's savings and every house's availability as they were.
\* (create_consumers replaces the population by new consumers.)
C17_OwnerKeepsHouseAndBuysNothing ==
    [][\A c \in Owners(consumers) :
           /\ ret'.op # "create_consumers" => consumers'[c].house = consumers[c].house
           /\ ret'.op = "clean_the_market" => consumers'[c] = consumers[c]
           /\ (ret'.op = "buy_a_house" /\ ret'.arg = <<c>>) =>
                  /\ ret'.exc = "None"
                  /\ consumers' = consumers
                  /\ houses' = houses]_vars

\* buy_a_house was called by a consumer who owns a house and has the savings
\* for an available house of the market
C17_Witness ==
    /\ ret.op = "buy_a_house"
    /\ ret.exc = "None"
    /\ ret.value = <<>>
    /\ ret.arg[1] \in Owners(consumers)
    /\ \E p \in AvailablePositions(houses) :
           houses[p].price <= consumers[ret.arg[1]].savings * PriceToSavings


\* C18: compute_owners_population_rate returns owners / consumers, a value in
\* [0, 1], whenever the population has been generated, a population of 0
\* consumers included, and compute_houses_availability_rate returns
\* available / houses whenever the market has been built, a market without a
\* house included; each fails only when its collection has not been created.
C18_RatesAreDefinedOnceCreated ==
    /\ ret.op = "compute_owners_population_rate" =>
           IF "consumers" \in attrs
           THEN /\ ret.exc = "None"
                /\ ret.value = <<Cardinality(Owners(consumers)), Len(consumers)>>
                /\ 0 <= ret.value[1] /\ ret.value[1] <= ret.value[2]
           ELSE ret.exc # "None"
    /\ ret.op = "compute_houses_availability_rate" =>
           IF "housing_market" \in attrs
           THEN /\ ret.exc = "None"
                /\ ret.value = <<Cardinality(AvailablePositions(houses)), Len(houses)>>
           ELSE ret.exc # "None"


RequiredFields == {"sale_price", "gr_liv_area", "bedroom_abv_gr", "year_built"}

\* a record with a number in every required field and a number or nothing as
\* overall_qual
WellFormed(data) ==
    /\ \A key \in RequiredFields : data[key].kind = "num"
    /\ data["overall_qual"].kind \in {"num", "absent"}

\* the houses are those of the records at the indices in kept, in input order
BuiltFrom(hs, data, kept) ==
    /\ {hs[j].id + 1 : j \in Positions(hs)} = kept
    /\ \A j, l \in Positions(hs) : j < l => hs[j].id < hs[l].id
    /\ \A j \in Positions(hs) :
           /\ hs[j].available
           /\ hs[j].price = data[hs[j].id + 1]["sale_price"].v
           /\ hs[j].area = data[hs[j].id + 1]["gr_liv_area"].v
           /\ hs[j].bedrooms = data[hs[j].id + 1]["bedroom_abv_gr"].v
           /\ hs[j].year_built = data[hs[j].id + 1]["year_built"].v

\* C19: create_housing_market never aborts: a record that lacks a required
\* field, or holds a text or None where a number is needed (in a required
\* field or in overall_qual), is skipped; every other record becomes a house
\* and the market is created.
C19_BuildNeverAborts ==
    ret.op = "create_housing_market" =>
        /\ ret.exc = "None"
        /\ "housing_market" \in attrs
        /\ BuiltFrom(houses, housing_market_data,
                     {i \in Positions(housing_market_data) :
                         WellFormed(housing_market_data[i])})


\* the records that lack a required field
LackingRequired(data) ==
    {i \in Positions(data) : \E key \in RequiredFields : data[i][key].kind = "absent"}

\* every value the records hold is a number
AllValuesNumeric(data) ==
    \A i \in Positions(data) : \A key \in DOMAIN data[i] :
        data[i][key].kind \in {"num", "absent"}

\* C20: for N records whose values are all numbers, create_housing_market
\* raises nothing and builds, in input order and all available, one house per
\* record that has its four required fields: N houses when none lacks one,
\* N - k when k do; a record that lacks only overall_qual gives a house
\* without quality_score.
C20_BuildsOneHousePerCompleteRecord ==
    (ret.op = "create_housing_market" /\ AllValuesNumeric(housing_market_data)) =>
        /\ ret.exc = "None"
        /\ Len(houses) = Len(housing_market_data)
                            - Cardinality(LackingRequired(housing_market_data))
        /\ BuiltFrom(houses, housing_market_data,
                     Positions(housing_market_data) \ LackingRequired(housing_market_data))
        /\ \A j \in Positions(houses) :
               housing_market_data[houses[j].id + 1]["overall_qual"].kind = "absent"
                  <=> houses[j].quality_score = NoQuality

\* a market of two houses was built from three records: one complete, one
\* without overall_qual, one without sale_price
C20_Witness ==
    /\ ret.op = "create_housing_market"
    /\ ret.exc = "None"
    /\ AllValuesNumeric(housing_market_data)
    /\ Len(housing_market_data) = 3
    /\ Cardinality(LackingRequired(housing_market_data)) = 1
    /\ Len(houses) = 2
    /\ \E j, l \in Positions(houses) :
           houses[j].quality_score = NoQuality /\ houses[l].quality_score # NoQuality


\* C21: every house of a market built by create_housing_market has price > 0,
\* area > 0, bedrooms >= 0 and 1800 <= year_built <= 2024, in every reachable
\* state: a record whose numbers break one of these bounds gives no house.
C21_HousesSatisfyDataModel ==
    \A p \in Positions(houses) :
        /\ houses[p].price > 0
        /\ houses[p].area > 0
        /\ houses[p].bedrooms >= 0
        /\ ValidYear(houses[p])


\* a house but for its availability
Sold(house) == [house EXCEPT !.available = FALSE]

\* C22: in a built market, records skipped or not, the ids of the houses are
\* pairwise distinct; before and after any sale get_house_by_id(h.id) returns
\* the house h for every house of the list, and None, without an error, for
\* an id no house has; after construction the list and the index keep their
\* members, only `available` changes.
C22_IndexAgreesWithList ==
    [][/\ \A p, q \in Positions(houses') : houses'[p].id = houses'[q].id => p = q
       /\ \A p \in Positions(houses') : get_house_by_id(house_index', houses'[p].id) = p
       /\ ret'.op = "get_house_by_id" =>
              /\ ret'.exc = "None"
              /\ ret'.value = IF \E p \in Positions(houses') : houses'[p].id = ret'.arg[1]
                               THEN <<CHOOSE p \in Positions(houses') :
                                          houses'[p].id = ret'.arg[1]>>
                               ELSE <<>>
       /\ "housing_market" \in attrs =>
              /\ house_index' = house_index
              /\ Len(houses') = Len(houses)
              /\ \A p \in Positions(houses) : Sold(houses'[p]) = Sold(houses[p])]_vars

\* get_house_by_id returned a sold house of a market built with a record
\* skipped before it, so that its id is not its place in the list
C22_Witness ==
    /\ ret.op = "get_house_by_id"
    /\ ret.value # <<>>
    /\ ~ houses[ret.value[1]].available
    /\ houses[ret.value[1]].id # ret.value[1] - 1
    /\ houses[ret.value[1]].id = ret.arg[1]

----------------------------------------------------------------------------
(* Consumers called one by one: Consumer.compute_savings with any number of
   years, a negative one included, and Consumer.buy_a_house, on the population
   and the market of one simulation.  For the incomes and prices drawn here
   the exact total of compute_savings is never half way between two cents
   (NoHalfCent), so round(total, 2) of the double is Round of the exact
   total. *)

InitSavings ==
    /\ housing_market_data \in SeqsUpTo(RawRecords, MaxHouses)
    /\ consumers_number \in 1..MaxConsumers
    /\ years = 1
    /\ annual_income = [minimum |-> 500, average |-> 900,
                        standard_deviation |-> 300, maximum |-> 1500]
    /\ children_range = [minimum |-> 0, maximum |-> 0]
    /\ cleaning_market_mechanism = "INCOME_ORDER_DESCENDANT"
    /\ saving_rate = [num |-> 3, den |-> 10]
    /\ interest_rate = [num |-> 1, den |-> 20]
    /\ down_payment_percentage = [num |-> 2, den |-> 10]
    /\ attrs = {}
    /\ houses = <<>>
    /\ house_index = <<>>
    /\ consumers = <<>>
    /\ frame = NoFrame
    /\ ret = NoRet

NextSavings ==
    \/ CreateHousingMarket
    \/ CreateConsumers
    \/ \E c \in Positions(consumers) : \E n_years \in (0 - 1)..MaxYears :
           ComputeSavings(c, n_years)
    \/ \E c \in Positions(consumers) : BuyAHouse(c)

SpecSavings == InitSavings /\ [][NextSavings]_vars

\* the exact total of n years for consumer: savings * (1 + r)^n plus the
\* contribution times (1 + r)^n + ... + (1 + r), as a fraction num / den
RECURSIVE Power(_, _)
Power(b, n) == IF n = 0 THEN 1 ELSE b * Power(b, n - 1)

RECURSIVE GrowthSum(_, _, _)
GrowthSum(rate, n, k) ==
    IF k > n THEN 0
    ELSE Power(rate.den + rate.num, k) * Power(rate.den, n - k) + GrowthSum(rate, n, k + 1)

CompoundedTotal(consumer, n) ==
    [num |-> consumer.savings * consumer.saving_rate.den
                 * Power(consumer.interest_rate.den + consumer.interest_rate.num, n)
             + consumer.annual_income * consumer.saving_rate.num
                 * GrowthSum(consumer.interest_rate, n, 1),
     den |-> consumer.saving_rate.den * Power(consumer.interest_rate.den, n)]

NearestCent(cents, total) ==
    2 * Abs(cents * total.den - total.num) <= total.den

\* no exact total lies half way between two cents
NoHalfCent ==
    \A c \in Positions(consumers) : \A n \in 0..MaxYears :
        consumers[c].savings <= SavingsCap =>
            LET total == CompoundedTotal(consumers[c], n)
            IN  (2 * total.num) % total.den # 0 \/ (2 * total.num) % (2 * total.den) = 0

\* C23: compute_savings(n) with n >= 0 sets savings to the cent nearest to
\* the total of n years in which the contribution of income * saving_rate is
\* added first and the whole is then multiplied by (1 + interest_rate), so
\* that every contribution earns the interest of its own year and interest
\* compounds; with n < 0 it raises ValueError and savings stay as they were.
\* No other consumer and no house changes.
C23_SavingsCompoundYearByYear ==
    [][ret'.op = "compute_savings" =>
          LET c == ret'.arg[1]
              n == ret'.arg[2]
          IN  /\ Len(consumers') = Len(consumers)
              /\ \A d \in Positions(consumers) : d # c => consumers'[d] = consumers[d]
              /\ houses' = houses
              /\ IF n < 0
                 THEN /\ ret'.exc = "ValueError"
                      /\ consumers'[c] = consumers[c]
                 ELSE /\ ret'.exc = "None"
                      /\ NearestCent(consumers'[c].savings,
                                     CompoundedTotal(consumers[c], n))
                      /\ [consumers'[c] EXCEPT !.savings = 0, !.savings_ulp = 0]
                           = [consumers[c] EXCEPT !.savings = 0, !.savings_ulp = 0]]_vars

\* compute_savings(2) returned for a consumer who owns a house, whose savings
\* at the call were what the down payment had left
C23_Witness ==
    /\ ret.op = "compute_savings"
    /\ ret.exc = "None"
    /\ ret.arg[2] = 2
    /\ OwnsHouse(consumers[ret.arg[1]])

\* C24: compute_savings(n) with n >= 0 never lowers the savings of a consumer
\* with positive income and saving rate and non-negative interest rate, and
\* compute_savings(0) leaves the savings exactly as they were, the double
\* left by a down payment included.
C24_SavingsNeverDecrease ==
    [][(ret'.op = "compute_savings" /\ ret'.exc = "None") =>
          LET before == consumers[ret'.arg[1]]
              after == consumers'[ret'.arg[1]]
          IN  /\ \/ after.savings > before.savings
                 \/ after.savings = before.savings /\ after.savings_ulp >= before.savings_ulp
              /\ ret'.arg[2] = 0 =>
                     /\ after.savings = before.savings
                     /\ after.savings_ulp = before.savings_ulp]_vars

----------------------------------------------------------------------------
(* Simulation.create_consumers statement by statement: the for loop over the
   consumers, the `while True` loop that redraws the income, and the
   construction of the consumer. *)

\* values gauss(average, standard_deviation) may return, in cents
GaussDraws == {300, 700, 1000, 2000}

\* `minimum <= income` alone
WithinBounds_MinOnly(income, bounds) == bounds.minimum <= income

\* `self.annual_income.minimum <= income <= self.annual_income.maximum`
WithinBounds(income, bounds) ==
    bounds.minimum <= income /\ income <= bounds.maximum

InitPopulation ==
    /\ housing_market_data = <<>>
    /\ consumers_number \in 0..MaxConsumers
    /\ years = 1
    /\ annual_income \in {[minimum |-> 500, average |-> 900,
                            standard_deviation |-> 300, maximum |-> 1500],
                           [minimum |-> 1500, average |-> 900,
                            standard_deviation |-> 300, maximum |-> 500]}
    /\ children_range = [minimum |-> 0, maximum |-> 1]
    /\ cleaning_market_mechanism = "INCOME_ORDER_DESCENDANT"
    /\ saving_rate = [num |-> 3, den |-> 10]
    /\ interest_rate = [num |-> 1, den |-> 20]
    /\ down_payment_percentage = [num |-> 2, den |-> 10]
    /\ attrs = {}
    /\ houses = <<>>
    /\ house_index = <<>>
    /\ consumers = <<>>
    /\ frame = NoFrame
    /\ ret = NoRet

\* create_consumers is called: `consumers = []`
CallCreateConsumers ==
    /\ frame.pc = "idle"
    /\ "consumers" \notin attrs
    /\ frame' = [pc |-> "for", consumers |-> <<>>, income |-> 0]
    /\ UNCHANGED <<config, market, attrs, consumers, ret>>

\* `for i in range(self.consumers_number)`: the next consumer, or after the
\* last one `self.consumers = consumers` and the return
ForConsumer ==
    /\ frame.pc = "for"
    /\ IF Len(frame.consumers) < consumers_number
       THEN /\ frame' = [frame EXCEPT !.pc = "while"]
            /\ UNCHANGED <<attrs, consumers, ret>>
       ELSE /\ consumers' = frame.consumers
            /\ attrs' = attrs \cup {"consumers"}
            /\ frame' = NoFrame
            /\ ret' = Ret("create_consumers", "None", <<>>, "", <<>>)
    /\ UNCHANGED <<config, market>>

\* one turn of `while True`: a draw, and the break when it lies within the bounds
DrawIncome(income) ==
    /\ frame.pc = "while"
    /\ frame' = [frame EXCEPT !.income = income,
                              !.pc = IF WithinBounds(income, annual_income)
                                     THEN "append" ELSE "while"]
    /\ UNCHANGED <<config, market, attrs, consumers, ret>>

\* randint, choice, Consumer(...) and consumers.append(consumer)
AppendConsumer(children, segment) ==
    /\ frame.pc = "append"
    /\ frame' = [frame EXCEPT
                    !.pc = "for",
                    !.consumers = Append(frame.consumers,
                                         NewConsumer(Len(frame.consumers), frame.income,
                                                     children, segment))]
    /\ UNCHANGED <<config, market, attrs, consumers, ret>>

DrawWithinBounds ==
    \E income \in GaussDraws :
        WithinBounds(income, annual_income) /\ DrawIncome(income)

BuildConsumer ==
    \E children \in children_range.minimum..children_range.maximum :
        \E segment \in Segments : AppendConsumer(children, segment)

NextPopulation ==
    \/ CallCreateConsumers
    \/ ForConsumer
    \/ \E income \in GaussDraws : DrawIncome(income)
    \/ BuildConsumer

SpecPopulation == InitPopulation /\ [][NextPopulation]_vars

\* the call keeps running, and a draw that gauss can make is eventually made
SpecPopulationFair ==
    /\ SpecPopulation
    /\ WF_vars(ForConsumer)
    /\ WF_vars(BuildConsumer)
    /\ WF_vars(DrawWithinBounds)

SomeDrawWithinBounds ==
    \E income \in GaussDraws : WithinBounds(income, annual_income)

\* C25: a running create_consumers returns whenever gauss can draw an income
\* within [minimum, maximum]; what it returns are consumers_number consumers
\* with ids 0..consumers_number-1, incomes within the bounds, children within
\* children_range, savings 0 and no house; when no draw lies within the bounds
\* the `while True` loop, once entered, is never left.
C25_PopulationIsDrawnWithinBounds ==
    /\ (frame.pc # "idle" /\ SomeDrawWithinBounds) ~> (ret.op = "create_consumers")
    /\ [](ret.op = "create_consumers" =>
             /\ ret.exc = "None"
             /\ frame.pc = "idle"
             /\ Len(consumers) = consumers_number
             /\ \A c \in Positions(consumers) :
                    /\ consumers[c].id = c - 1
                    /\ annual_income.minimum <= consumers[c].annual_income
                    /\ consumers[c].annual_income <= annual_income.maximum
                    /\ children_range.minimum <= consumers[c].children_number
                    /\ consumers[c].children_number <= children_range.maximum
                    /\ consumers[c].savings = 0
                    /\ consumers[c].savings_ulp = 0
                    /\ consumers[c].house = NoHouse)
    /\ []((frame.pc = "while" /\ ~ SomeDrawWithinBounds) => [](frame.pc = "while"))

\* create_consumers returned the most consumers a run has
C25_Witness ==
    /\ ret.op = "create_consumers"
    /\ Len(consumers) = MaxConsumers
    /\ consumers[1].annual_income # consumers[MaxConsumers].annual_income

\* C26: in a run with one market and one population, after any savings
\* accumulation, clearing pass or single purchase, as many houses are
\* unavailable as consumers own a house, and the house of every owner is a
\* house of the market's list that is unavailable.
C26_SoldHousesAreTheOwnedOnes ==
    /\ Cardinality(Unavailable(houses)) = Cardinality(Owners(consumers))
    /\ \A c \in Owners(consumers) :
           \E p \in Positions(houses) :
               /\ houses[p].id = consumers[c].house
               /\ ~ houses[p].available

\* a clearing pass has ended with one consumer owning a house, another one
\* owning none and a house of the market left available
C26_Witness ==
    /\ ret.op = "clean_the_market"
    /\ ret.exc = "None"
    /\ Cardinality(Owners(consumers)) = 1
    /\ Len(consumers) = 2
    /\ Cardinality(Unavailable(houses)) < Len(houses)

----------------------------------------------------------------------------
(* Clearing passes over a population of up to three consumers in descending
   order of income.  The market data are valid: a new EXCELLENT house and two
   old AVERAGE houses of 20 square feet whose prices per square foot, 0.9975
   and 1.0025, both round to 1.00. *)

\* the largest population of these runs
MaxOrderConsumers == 3
\* the longest market data of these runs
MaxOrderHouses == 2

OrderRecords ==
    { Raw(Num(1000), Num(20), Num(2), Num(2022), Num(9)),
      Raw(Num(1995), Num(20), Num(2), Num(2000), Num(5)),
      Raw(Num(2005), Num(20), Num(2), Num(2000), Num(5)) }

InitOrder ==
    /\ housing_market_data \in SeqsUpTo(OrderRecords, MaxOrderHouses)
    /\ consumers_number \in 2..MaxOrderConsumers
    /\ years = 2
    /\ annual_income = [minimum |-> 500, average |-> 900,
                        standard_deviation |-> 300, maximum |-> 1500]
    /\ children_range = [minimum |-> 0, maximum |-> 0]
    /\ cleaning_market_mechanism = "INCOME_ORDER_DESCENDANT"
    /\ saving_rate = [num |-> 3, den |-> 10]
    /\ interest_rate = [num |-> 1, den |-> 20]
    /\ down_payment_percentage = [num |-> 2, den |-> 10]
    /\ attrs = {}
    /\ houses = <<>>
    /\ house_index = <<>>
    /\ consumers = <<>>
    /\ frame = NoFrame
    /\ ret = NoRet

NextOrder ==
    \/ CreateHousingMarket
    \/ CreateConsumers
    \/ ComputeConsumersSavings
    \/ CleanTheMarket

SpecOrder == InitOrder /\ [][NextOrder]_vars

\* the population as create_consumers and one compute_consumers_savings leave it
FreshPopulation(cs) ==
    \A c \in Positions(cs) :
        /\ cs[c].savings > 0
        /\ cs[c] = compute_savings(NewConsumer(c - 1, cs[c].annual_income,
                                               cs[c].children_number, cs[c].segment),
                                   years).value

ValidHouseData(hs) ==
    \A p \in Positions(hs) :
        /\ hs[p].price > 0
        /\ hs[p].area > 0
        /\ hs[p].bedrooms >= 0
        /\ ValidYear(hs[p])

\* C27: a clearing pass in descending order of income over a population fresh
\* from create_consumers and compute_consumers_savings, on valid houses, ends
\* with no two consumers of one segment of whom the one with the strictly
\* lower income owns a house and the other one does not.
C27_NoLowerIncomeOvertakes ==
    [][(/\ ret'.op = "clean_the_market"
        /\ ret'.exc = "None"
        /\ cleaning_market_mechanism = "INCOME_ORDER_DESCENDANT"
        /\ FreshPopulation(consumers)
        /\ ValidHouseData(houses)) =>
          \A c, d \in Positions(consumers') :
              (/\ consumers'[c].segment = consumers'[d].segment
               /\ consumers'[c].annual_income < consumers'[d].annual_income) =>
                  ~ (OwnsHouse(consumers'[c]) /\ ~ OwnsHouse(consumers'[d]))]_vars

\* C28: a clearing pass in descending order of income that directly follows a
\* completed clearing pass, on valid houses and with all savings positive,
\* sells no house and changes no consumer.
C28_SecondPassChangesNothing ==
    [][(/\ ret.op = "clean_the_market"
        /\ ret.exc = "None"
        /\ ret'.op = "clean_the_market"
        /\ cleaning_market_mechanism = "INCOME_ORDER_DESCENDANT"
        /\ \A c \in Positions(consumers) : consumers[c].savings > 0
        /\ ValidHouseData(houses)) =>
          /\ consumers' = consumers
          /\ houses' = houses]_vars

----------------------------------------------------------------------------
(* Single purchases after two years of savings, by consumers with incomes of
   7.00 and 10.00 (savings 4.52 and 6.46), on a market with a house of 22.60 =
   4.52 * 5.  The calls follow one another: none starts while
   create_consumers is running. *)

\* the longest market data of these runs
MaxAverageHouses == 2

AverageRecords ==
    { Raw(Num(2260), Num(20), Num(2), Num(2000), Num(5)),
      Raw(Num(3000), Num(20), Num(3), Num(2000), Num(5)),
      Raw(Num(1000), Num(20), Num(2), Num(2022), Num(9)) }

InitAverage ==
    /\ housing_market_data \in SeqsUpTo(AverageRecords, MaxAverageHouses)
    /\ consumers_number \in 1..MaxConsumers
    /\ years = 2
    /\ annual_income = [minimum |-> 500, average |-> 900,
                        standard_deviation |-> 300, maximum |-> 1500]
    /\ children_range = [minimum |-> 0, maximum |-> 0]
    /\ cleaning_market_mechanism = "INCOME_ORDER_DESCENDANT"
    /\ saving_rate = [num |-> 3, den |-> 10]
    /\ interest_rate = [num |-> 1, den |-> 20]
    /\ down_payment_percentage = [num |-> 2, den |-> 10]
    /\ attrs = {}
    /\ houses = <<>>
    /\ house_index = <<>>
    /\ consumers = <<>>
    /\ frame = NoFrame
    /\ ret = NoRet

NextAverage ==
    \/ CallCreateConsumers
    \/ ForConsumer
    \/ \E income \in GaussDraws : DrawIncome(income)
    \/ BuildConsumer
    \/ frame.pc = "idle" /\ CreateHousingMarket
    \/ frame.pc = "idle" /\ ComputeConsumersSavings
    \/ frame.pc = "idle" /\ \E c \in Positions(consumers) : BuyAHouse(c)

SpecAverage == InitAverage /\ [][NextAverage]_vars

Cheapest(hs) ==
    {p \in Positions(hs) :
        /\ hs[p].available
        /\ \A q \in Positions(hs) : hs[q].available => hs[p].price <= hs[q].price}

\* C29: in every market the cheapest available houses satisfy the AVERAGE
\* rule, and buy_a_house called for an AVERAGE consumer who owns no house and
\* whose savings * 5 are at least the lowest price among the available houses
\* ends with the consumer owning a house.
C29_AverageBuysWhenCheapestAffordable ==
    [][/\ \A p \in Cheapest(houses) : AverageRule(houses, p)
       /\ ret'.op = "buy_a_house" =>
              LET consumer == consumers[ret'.arg[1]]
              IN  (/\ consumer.segment = "AVERAGE"
                   /\ ~ OwnsHouse(consumer)
                   /\ \E p \in Cheapest(houses) :
                          consumer.savings * 5 >= houses[p].price) =>
                      OwnsHouse(consumers'[ret'.arg[1]])]_vars

----------------------------------------------------------------------------
(* Simulations that differ in down_payment_percentage: 0.1, the default 0.2
   and 0.5. *)

DownPaymentPercentages ==
    {[num |-> 1, den |-> 10], [num |-> 2, den |-> 10], [num |-> 1, den |-> 2]}

InitDownPayment ==
    /\ housing_market_data \in SeqsUpTo(RawRecords, MaxHouses)
    /\ consumers_number \in 1..MaxConsumers
    /\ years = 1
    /\ annual_income = [minimum |-> 500, average |-> 900,
                        standard_deviation |-> 300, maximum |-> 1500]
    /\ children_range = [minimum |-> 0, maximum |-> 0]
    /\ cleaning_market_mechanism = "INCOME_ORDER_DESCENDANT"
    /\ saving_rate = [num |-> 3, den |-> 10]
    /\ interest_rate = [num |-> 1, den |-> 20]
    /\ down_payment_percentage \in DownPaymentPercentages
    /\ attrs = {}
    /\ houses = <<>>
    /\ house_index = <<>>
    /\ consumers = <<>>
    /\ frame = NoFrame
    /\ ret = NoRet

SpecDownPayment == InitDownPayment /\ [][Next]_vars

\* the fields of a Consumer: none of them is the simulation's percentage
ConsumerFields ==
    {"id", "annual_income", "children_number", "segment", "house", "savings",
     "savings_ulp", "saving_rate", "interest_rate"}

\* C30: whatever down_payment_percentage the simulation was configured with,
\* it is never changed and no consumer receives it, and every purchase is of
\* an available house whose price is at most savings * 5 and takes exactly
\* 0.2 * price from the buyer's savings; nothing else of the consumers or of
\* the houses changes with it.
C30_DownPaymentPercentageIsNotUsed ==
    [][/\ down_payment_percentage' = down_payment_percentage
       /\ \A c \in Positions(consumers') : DOMAIN consumers'[c] = ConsumerFields
       /\ Len(consumers') = Len(consumers) =>
              \A c \in Positions(consumers) :
                  IF ~ OwnsHouse(consumers[c]) /\ OwnsHouse(consumers'[c])
                  THEN \E p \in Positions(houses) :
                          /\ houses[p].id = consumers'[c].house
                          /\ houses[p].available
                          /\ houses'[p] = Sold(houses[p])
                          /\ houses[p].price <= consumers[c].savings * 5
                          /\ consumers'[c].savings * 5
                                 = consumers[c].savings * 5 - houses[p].price
                  ELSE consumers'[c].house = consumers[c].house]_vars

\* a simulation configured with a down payment of 50 % has sold a house in a
\* clearing pass
C30_Witness ==
    /\ down_payment_percentage = [num |-> 1, den |-> 2]
    /\ ret.op = "clean_the_market"
    /\ ret.exc = "None"
    /\ Owners(consumers) # {}

====
